---- MODULE Spec2Model ----
(***************************************************************************)
(* A model of the opal-bot scheduling transaction, of the Calendar         *)
(* abstraction it is built on, and of the Spool that routes messages.      *)
(*                                                                         *)
(*   Spec     OpalBot.handle_schedule_meeting from the point where the     *)
(*            Event has been constructed: the hypothetical world with the  *)
(*            two scheduleEvent calls, the Promise.all join, ctx.get,      *)
(*            ctx.commit (EventCollection.send) and the outcome message.   *)
(*   CalSpec  a client of one calbase.Calendar inside one world:           *)
(*            scheduleEvent, getEvents and the commit of the world.        *)
(*   SpoolSpec  the Spool of one channel adapter: wait, dispatch and fire  *)
(*            as the adapter's message handler calls it, and the           *)
(*            new-conversation handler fire awaits. FairSpoolSpec is       *)
(*            SpoolSpec for runs in which messages keep coming in.         *)
(*   UserSpec  OpalBot.getUser and getCalendar over the users collection,  *)
(*            called by conversations of several namespaces.               *)
(*   DialogSpec  OpalBot.interact for the first text of a conversation,    *)
(*            the handler it chooses, and query_loop inside                *)
(*            handle_schedule_meeting up to the start of the transaction.  *)
(*   TxnSpec  Spec with the adapter connected: messages keep coming in     *)
(*            while the transaction runs.                                  *)
(*                                                                         *)
(* The opal library (worlds, collections) and the calendar servers are     *)
(* outside the repository. What the model takes from them is stated where  *)
(* it is used: a collection is viewed per world, ctx.add changes the view  *)
(* of the world it runs in, ctx.commit hands the world's additions to      *)
(* ExternalCollection.send. A server's answer is an input of the action.   *)
(***************************************************************************)
EXTENDS Integers, Sequences, FiniteSets, TLC

\* ---------------------------------------------------------------- bounds
\* Times are 0..MaxTime.
MaxTime == 2
\* The longest answer a calendar server gives to one fetch.
MaxRemote == 1
\* The most events a client buffers on one calendar in CalSpec.
MaxBuffered == 1

\* ---------------------------------------------------------------- values
Titles == {"Standup"}

Times == 0..MaxTime

\* calbase.Event: {title, start, end}; an event ends after it starts.
Events == {ev \in [title : Titles, start : Times, end : Times] : ev.start < ev.end}

\* The two participants of the transaction: the caller and the counterpart.
Parts == {"my", "target"}

Other(p) == IF p = "my" THEN "target" ELSE "my"

\* createCalendarFromSettings: a caldav.Calendar extends calbase.Calendar
\* (buffered scheduleEvent); a remote.Calendar has a scheduleEvent of its own
\* and no buffer. office.Calendar is not among the sources and is left out.
Kinds == {"caldav", "remote"}

MsgIssue == "Issue scheduling"
MsgGotIt == "Got it."
MsgCommitFailed == "Failed to commit the meeting to both calendars"
MsgCouldNot == "Could not schedule a meeting on both calendars."

VARIABLES
    kind,       \* kind[p]: the class of p's Calendar
    event,      \* the Event built from the slots
    pc,         \* position of handle_schedule_meeting; in CalSpec "api" while
                \* the client's world is open and "apiCommitted" afterwards
    part,       \* part[p]: state of the promise scheduleEvent returned for p
    succeeded,  \* the out variable of the world: "unset", "true" or "false"
    commit,     \* ctx.commit(world): "none", "running", "ok"
    buffer,     \* buffer[p]: the view of p's eventBuffer in the world
    inflight,   \* inflight[p]: events whose scheduleEventImpl is running
    acked,      \* acked[p]: events whose scheduleEventImpl returned res.ok
    failed,     \* failed[p]: events whose scheduleEventImpl returned false or threw
    rnode,      \* rnode[p]: what RemoteCalendarNode.scheduleEvent did
    rcommit,    \* rcommit[p]: outcome of remote.Calendar's ctx.commit
    sent,       \* messages sent with conv.send, in order
    lastGet,    \* the getEvents call that has just returned, with its result;
                \* NoGet as soon as the calendar is used or written again
    adapter,    \* the channel adapter that owns the Spool
    onconverse, \* the adapter's onconverse handler is set (not null)
    waiters,    \* Spool.waiters: the pending [key, resolve] pairs, in order
    promises,   \* every promise wait() has returned, in the order of the calls
    dlg,        \* the new-conversation calls of fire, each with its handler
    lastFire,   \* the fire call that has just run its synchronous part;
                \* NoFire as soon as anything else happens
    users,      \* the users collection of the database, by slack_id
    call,       \* the getCalendar call that is running or has just returned
    dpc,        \* position of the dialogue: of interact and the handler it runs
    slots,      \* the contact, datetime and duration entities the handler holds
    log         \* what the dialogue has done so far, in order

calVars == <<kind, event, pc, part, succeeded, commit, buffer, inflight, acked,
             failed, rnode, rcommit, sent, lastGet>>

spoolVars == <<adapter, onconverse, waiters, promises, dlg, lastFire>>

botVars == <<users, call, dpc, slots, log>>

vars == <<kind, event, pc, part, succeeded, commit, buffer, inflight, acked,
          failed, rnode, rcommit, sent, lastGet,
          adapter, onconverse, waiters, promises, dlg, lastFire, botVars>>

\* ------------------------------------------------------- Calendar (calbase)

\* opal.ctx.add(this.eventBuffer, event): the world's view gains the event.
CtxAddMutNoAdd(view, ev) == view

CtxAdd(view, ev) == view \cup {ev}

\* Calendar.scheduleEvent returns true, whatever the backend will do.
ScheduleEventResult == "true"

ResetBufferMutKeep(view) == view

\* resetBuffer: this.eventBuffer becomes a new, empty collection.
ResetBuffer(view) == {}

\* EventCollection.send for calendar p: every added event is handed to
\* scheduleEventImpl, then the buffer is reset. The callbacks given to
\* edit.foreach are async and send does not await them, so the order of
\* CommitResolve and ImplComplete is left open.
SendAdds(p) == buffer[p]

\* The outcome of the send as ctx.commit sees it: the catch swallows a throw
\* and the boolean of scheduleEventImpl is dropped, so send never fails.
SendOutcome(anyFailed) == "ok"

\* ------------------------------------------------------- the transaction

BoolStr(b) == IF b THEN "true" ELSE "false"

Resolved(p) == part[p] \in {"true", "false"}

\* .then(([m, t]) => m && t)
AggregateMutOr(m, t) == m \/ t

Aggregate(m, t) == m /\ t

\* Promise.all([myScheduleSuccessP, targetScheduleSuccessP]).then(([m, t]) => m && t):
\* "unset" while a promise is outstanding, the conjunction once both resolved.
JoinOutcomeMutFirst ==
    IF Resolved("my") THEN part["my"] ELSE "unset"

JoinOutcome ==
    IF \A p \in Parts : Resolved(p)
    THEN BoolStr(Aggregate(part["my"] = "true", part["target"] = "true"))
    ELSE "unset"

\* Promise.all rejects as soon as one promise has rejected.
JoinRejects == \E p \in Parts : part[p] = "rejected"

CallScheduleEventMutShared(p) ==
    IF kind[p] = "caldav"
    THEN /\ buffer' = [q \in Parts |-> CtxAdd(buffer[q], event)]
         /\ part' = [part EXCEPT ![p] = ScheduleEventResult]
    ELSE /\ buffer' = buffer
         /\ part' = [part EXCEPT ![p] = "pending"]

\* scheduleEvent of p is called inside the world's body.
CallScheduleEvent(p) ==
    IF kind[p] = "caldav"
    THEN /\ buffer' = [buffer EXCEPT ![p] = CtxAdd(@, event)]
         /\ part' = [part EXCEPT ![p] = ScheduleEventResult]
    ELSE /\ buffer' = buffer
         /\ part' = [part EXCEPT ![p] = "pending"]

StartMyWrite ==
    /\ pc = "hyp"
    /\ CallScheduleEvent("my")
    /\ pc' = "myStarted"
    /\ UNCHANGED <<kind, event, succeeded, commit, inflight, acked, failed,
                   rnode, rcommit, sent, lastGet>>
    /\ UNCHANGED spoolVars
    /\ UNCHANGED botVars

StartTargetWrite ==
    /\ pc = "myStarted"
    /\ CallScheduleEvent("target")
    /\ pc' = "join"
    /\ UNCHANGED <<kind, event, succeeded, commit, inflight, acked, failed,
                   rnode, rcommit, sent, lastGet>>
    /\ UNCHANGED spoolVars
    /\ UNCHANGED botVars

RemoteResultMutRethrow(commitOutcome, nodeOutcome) ==
    IF commitOutcome = "ok" THEN nodeOutcome ELSE "rejected"

\* remote.Calendar.scheduleEvent:
\*   return await ctx.commit(world).then(() => ctx.get(result, world), () => false)
RemoteResult(commitOutcome, nodeOutcome) ==
    IF commitOutcome = "ok" THEN nodeOutcome ELSE "false"

\* The remote node answered (or threw), and the commit of the `with remote`
\* world went through or was rejected. A node that threw rejects the commit.
\* The body can run only after the handler's body has yielded at its await.
ResolveRemote(p) ==
    /\ pc \in {"join", "get", "committing", "done"}
    /\ kind[p] = "remote"
    /\ part[p] = "pending"
    /\ \E n \in {"true", "false", "threw"} :
       \E c \in {"ok", "rejected"} :
          /\ n = "threw" => c = "rejected"
          /\ rnode' = [rnode EXCEPT ![p] = n]
          /\ rcommit' = [rcommit EXCEPT ![p] = c]
          /\ part' = [part EXCEPT ![p] = RemoteResult(c, n)]
    /\ UNCHANGED <<kind, event, pc, succeeded, commit, buffer, inflight, acked,
                   failed, sent, lastGet>>
    /\ UNCHANGED spoolVars
    /\ UNCHANGED botVars

\* Creating the world over the remote node fails (remote.ts 50-54, outside the
\* two handlers of line 56): the promise of scheduleEvent rejects.
RejectRemote(p) ==
    /\ pc \in {"join", "get", "committing", "done"}
    /\ kind[p] = "remote"
    /\ part[p] = "pending"
    /\ part' = [part EXCEPT ![p] = "rejected"]
    /\ UNCHANGED <<kind, event, pc, succeeded, commit, buffer, inflight, acked,
                   failed, rnode, rcommit, sent, lastGet>>
    /\ UNCHANGED spoolVars
    /\ UNCHANGED botVars

\* succeeded = await Promise.all([...]).then(([m, t]) => m && t, ...)
JoinAll ==
    /\ pc = "join"
    /\ ~JoinRejects
    /\ JoinOutcome # "unset"
    /\ succeeded' = JoinOutcome
    /\ pc' = "get"
    /\ UNCHANGED <<kind, event, part, commit, buffer, inflight, acked, failed,
                   rnode, rcommit, sent, lastGet>>
    /\ UNCHANGED spoolVars
    /\ UNCHANGED botVars

\* (e) => { conv.send(`Issue scheduling: ${e}`); return false; }
JoinRejected ==
    /\ pc = "join"
    /\ JoinRejects
    /\ sent' = Append(sent, MsgIssue)
    /\ succeeded' = "false"
    /\ pc' = "get"
    /\ UNCHANGED <<kind, event, part, commit, buffer, inflight, acked, failed,
                   rnode, rcommit, lastGet>>
    /\ UNCHANGED spoolVars
    /\ UNCHANGED botVars

\* ctx.commit(world): the additions the world made to a collection go to that
\* collection's EventCollection.send: scheduleEventImpl is started for each
\* added event and the calendar's buffer is reset. A collection the world did
\* not change is not sent.
SendAll ==
    /\ inflight' = [p \in Parts |-> inflight[p] \cup SendAdds(p)]
    /\ buffer' = [p \in Parts |->
                    IF SendAdds(p) # {} THEN ResetBuffer(buffer[p]) ELSE buffer[p]]

CommitStart ==
    /\ pc = "get"
    /\ succeeded = "true"
    /\ commit' = "running"
    /\ SendAll
    /\ pc' = "committing"
    /\ UNCHANGED <<kind, event, part, succeeded, acked, failed, rnode, rcommit,
                   sent, lastGet>>
    /\ UNCHANGED spoolVars
    /\ UNCHANGED botVars

ReportFailureMutSilent ==
    /\ pc = "get"
    /\ succeeded = "false"
    /\ pc' = "done"
    /\ UNCHANGED <<kind, event, part, succeeded, commit, buffer, inflight,
                   acked, failed, rnode, rcommit, sent, lastGet>>
    /\ UNCHANGED spoolVars
    /\ UNCHANGED botVars

\* else conv.send("Could not schedule a meeting on both calendars.")
ReportFailure ==
    /\ pc = "get"
    /\ succeeded = "false"
    /\ sent' = Append(sent, MsgCouldNot)
    /\ pc' = "done"
    /\ UNCHANGED <<kind, event, part, succeeded, commit, buffer, inflight,
                   acked, failed, rnode, rcommit, lastGet>>
    /\ UNCHANGED spoolVars
    /\ UNCHANGED botVars

\* caldav scheduleEventImpl finishes: return res.ok (true or false), or fetch
\* throws and the catch of send logs the error.
ImplComplete(p) ==
    /\ \E ev \in inflight[p] :
       \E outcome \in {"ok", "notok", "threw"} :
          /\ inflight' = [inflight EXCEPT ![p] = @ \ {ev}]
          /\ IF outcome = "ok"
             THEN /\ acked' = [acked EXCEPT ![p] = @ \cup {ev}]
                  /\ failed' = failed
             ELSE /\ failed' = [failed EXCEPT ![p] = @ \cup {ev}]
                  /\ acked' = acked
    /\ lastGet' = [status |-> "none"]
    /\ UNCHANGED <<kind, event, pc, part, succeeded, commit, buffer, rnode,
                   rcommit, sent>>
    /\ UNCHANGED spoolVars
    /\ UNCHANGED botVars

AnyFailed == \E p \in Parts : failed[p] # {}

\* await ctx.commit(world).then(() => conv.send("Got it."), (e) => conv.send(...))
CommitResolve ==
    /\ pc = "committing"
    /\ commit' = SendOutcome(AnyFailed)
    /\ sent' = Append(sent, IF commit' = "ok" THEN MsgGotIt ELSE MsgCommitFailed)
    /\ pc' = "done"
    /\ UNCHANGED <<kind, event, part, succeeded, buffer, inflight, acked,
                   failed, rnode, rcommit, lastGet>>
    /\ UNCHANGED spoolVars
    /\ UNCHANGED botVars

\* ------------------------------------------------------- Calendar clients

Overlaps(ev, start, end) == ev.start < end /\ ev.end > start

SeqSet(s) == {s[i] : i \in 1..Len(s)}

\* What a server can answer to a fetch of [start, end): up to MaxRemote events
\* of the range, in the server's order, equal events included.
RemoteAnswers(start, end) ==
    UNION {[1..n -> {ev \in Events : Overlaps(ev, start, end)}] : n \in 0..MaxRemote}

\* Calendar.getEvents:
\*   let events = await this.getEventsImpl(start, end);
\*   events.concat(Array.from(opal.ctx.view(this.eventBuffer)));
\*   return events;
\* Array.prototype.concat returns a new array and leaves `events` as it was;
\* the new array is dropped.
GetEvents(remote, view) == remote

BufferAfterGetMutReconcile(view, remote) == view \ SeqSet(remote)

\* What getEvents leaves in the world's view of the buffer. The buffer is only
\* read (opal.ctx.view); nothing in getEvents removes an entry or adds one.
BufferAfterGet(view, remote) == view

\* A client calls scheduleEvent(ev) on calendar p.
CalScheduleEvent(p, ev) ==
    /\ pc = "api"
    /\ kind[p] = "caldav"
    /\ Cardinality(buffer[p]) < MaxBuffered
    /\ buffer' = [buffer EXCEPT ![p] = CtxAdd(@, ev)]
    /\ lastGet' = [status |-> "none"]
    /\ UNCHANGED <<kind, event, pc, part, succeeded, commit, inflight, acked,
                   failed, rnode, rcommit, sent>>
    /\ UNCHANGED spoolVars
    /\ UNCHANGED botVars

\* A client calls getEvents(start, end) on calendar p and the fetch answers.
CalGetEvents(p, start, end) ==
    /\ pc \in {"api", "apiCommitted"}
    /\ kind[p] = "caldav"
    /\ \E remote \in RemoteAnswers(start, end) :
          /\ lastGet' = [status |-> "ok", cal |-> p, start |-> start, end |-> end,
                         remote |-> remote,
                         result |-> GetEvents(remote, buffer[p])]
          /\ buffer' = [buffer EXCEPT ![p] = BufferAfterGet(@, remote)]
    /\ UNCHANGED <<kind, event, pc, part, succeeded, commit, inflight,
                   acked, failed, rnode, rcommit, sent>>
    /\ UNCHANGED spoolVars
    /\ UNCHANGED botVars

\* getEventsImpl throws ("error communicating with CalDAV server"): getEvents
\* rejects before it touches the buffer.
CalGetEventsFails(p, start, end) ==
    /\ pc \in {"api", "apiCommitted"}
    /\ kind[p] = "caldav"
    /\ lastGet' = [status |-> "threw", cal |-> p, start |-> start, end |-> end]
    /\ UNCHANGED <<kind, event, pc, part, succeeded, commit, buffer, inflight,
                   acked, failed, rnode, rcommit, sent>>
    /\ UNCHANGED spoolVars
    /\ UNCHANGED botVars

\* The client's world is committed; a world is committed once.
CalCommit ==
    /\ pc = "api"
    /\ SendAll
    /\ pc' = "apiCommitted"
    /\ lastGet' = [status |-> "none"]
    /\ UNCHANGED <<kind, event, part, succeeded, commit, acked, failed,
                   rnode, rcommit, sent>>
    /\ UNCHANGED spoolVars
    /\ UNCHANGED botVars

NoGet == [status |-> "none"]

NoFire == [kind |-> "none"]

Absent == [service |-> "absent", by |-> "nobody"]

NoCall == [status |-> "none"]

UserIds == {"u1", "u2"}

\* The bot is not in a dialogue: the database is as loaded, without users.
NoSlots == [contact |-> "absent", datetime |-> "absent", duration |-> "absent"]

\* No handler call is in progress.
DialogIdle ==
    /\ dpc = "idle"
    /\ slots = NoSlots
    /\ log = <<>>

BotIdle ==
    /\ users = [u \in UserIds |-> Absent]
    /\ call = NoCall
    /\ DialogIdle

\* No adapter is connected: the Spool is as constructed and stays so.
SpoolIdle ==
    /\ adapter = "term"
    /\ onconverse = FALSE
    /\ waiters = <<>>
    /\ promises = <<>>
    /\ dlg = <<>>
    /\ lastFire = NoFire

Init ==
    /\ kind \in [Parts -> Kinds]
    /\ event \in Events
    /\ pc = "hyp"
    /\ part = [p \in Parts |-> "idle"]
    /\ succeeded = "unset"
    /\ commit = "none"
    /\ buffer = [p \in Parts |-> {}]
    /\ inflight = [p \in Parts |-> {}]
    /\ acked = [p \in Parts |-> {}]
    /\ failed = [p \in Parts |-> {}]
    /\ rnode = [p \in Parts |-> "none"]
    /\ rcommit = [p \in Parts |-> "none"]
    /\ sent = <<>>
    /\ lastGet = NoGet
    /\ SpoolIdle
    /\ BotIdle

Next ==
    \/ StartMyWrite
    \/ StartTargetWrite
    \/ \E p \in Parts : ResolveRemote(p)
    \/ \E p \in Parts : RejectRemote(p)
    \/ JoinAll
    \/ JoinRejected
    \/ CommitStart
    \/ ReportFailure
    \/ \E p \in Parts : ImplComplete(p)
    \/ CommitResolve

Spec == Init /\ [][Next]_vars

\* The calendar of CalSpec.
CalParts == {"my"}

Ranges == {r \in Times \X Times : r[1] < r[2]}

CalInit ==
    /\ kind = [p \in Parts |-> "caldav"]
    /\ event = CHOOSE ev \in Events : \A other \in Events : ev.start <= other.start /\ ev.end <= other.end
    /\ pc = "api"
    /\ part = [p \in Parts |-> "idle"]
    /\ succeeded = "unset"
    /\ commit = "none"
    /\ buffer = [p \in Parts |-> {}]
    /\ inflight = [p \in Parts |-> {}]
    /\ acked = [p \in Parts |-> {}]
    /\ failed = [p \in Parts |-> {}]
    /\ rnode = [p \in Parts |-> "none"]
    /\ rcommit = [p \in Parts |-> "none"]
    /\ sent = <<>>
    /\ lastGet = NoGet
    /\ SpoolIdle
    /\ BotIdle

CalNext ==
    \/ \E p \in CalParts : \E ev \in Events : CalScheduleEvent(p, ev)
    \/ \E p \in CalParts : \E r \in Ranges : CalGetEvents(p, r[1], r[2])
    \/ \E p \in CalParts : \E r \in Ranges : CalGetEventsFails(p, r[1], r[2])
    \/ CalCommit
    \/ \E p \in CalParts : ImplComplete(p)

CalSpec == CalInit /\ [][CalNext]_vars

\* ------------------------------------------------------- Spool (basebot)

\* The most promises wait() hands out in one run.
MaxWaiters == 3
\* The most new conversations the handler is started for in one run.
MaxDialogs == 2

Adapters == {"term", "fb", "slack"}

\* The messages that come in. For the terminal the message is the line itself.
Msgs == {"m1", "m2"}

\* The keys of an adapter's conversations: the terminal has the one key null,
\* Messenger the sender ids, Slack the channel ids.
ConvKeys(a) == IF a = "term" THEN {"null"} ELSE {"k1", "k2"}

\* recv() of a conversation with key k waits on:
\*   terminal  spool.wait(null)
\*   Messenger spool.wait(this.user)
\*   Slack     spool.wait(this.chanId)
WaitKey(a, k) == k

\* The key argument fire receives for a message m of conversation k.
\*   terminal  fire(ctx, this, null, text, text, mkconv)
\*   Messenger fire(ctx, this, event.sender.id, event.message, text, mkconv)
\*   Slack     fire(this, message.channel, message, message.text, mkconv):
\*             five arguments for six parameters, so `key` is the message.
FireKey(a, k, m) == IF a = "slack" THEN m ELSE k

\* bot.onconverse of the bot argument fire receives. For Slack the argument is
\* message.channel, a string: it has no onconverse.
BotHandler(a) == IF a = "slack" THEN FALSE ELSE onconverse

KeyEqMutAny(k, key) == TRUE

\* k === key
KeyEq(k, key) == k = key

DispatchMutFirstOfAny(ws, key) == IF ws # <<>> THEN 1 ELSE 0

DispatchMutLast(ws, key) ==
    IF \E i \in 1..Len(ws) : KeyEq(ws[i].key, key)
    THEN CHOOSE i \in 1..Len(ws) :
             /\ KeyEq(ws[i].key, key)
             /\ \A j \in 1..Len(ws) : KeyEq(ws[j].key, key) => j <= i
    ELSE 0

\* The loop of Spool.dispatch: the index of the first waiter whose key is the
\* key, counted from 1; 0 when the loop ends without one (return null).
Dispatch(ws, key) ==
    IF \E i \in 1..Len(ws) : KeyEq(ws[i].key, key)
    THEN CHOOSE i \in 1..Len(ws) :
             /\ KeyEq(ws[i].key, key)
             /\ \A j \in 1..(i - 1) : ~KeyEq(ws[j].key, key)
    ELSE 0

SpliceMutTail(ws, i) == SubSeq(ws, 1, i - 1)

SpliceMutKeep(ws, i) == ws

\* this.waiters.splice(i, 1), with i counted from 1.
Splice(ws, i) == SubSeq(ws, 1, i - 1) \o SubSeq(ws, i + 1, Len(ws))

PushMutFront(ws, w) == <<w>> \o ws

\* this.waiters.push([key, resolve])
Push(ws, w) == Append(ws, w)

ResolveMutDrop(got, m) == got

\* cbk(message): the promise's resolve is called with the message.
Resolve(got, m) == Append(got, m)

FireResultMutTrue(found) == TRUE

\* fire's return value: true after cbk(message), false at the end.
FireResult(found) == found

\* connectSlack, runTerminal, addFacebook: register(bot) sets bot.onconverse,
\* then the adapter starts taking messages, in one synchronous method.
Connect ==
    /\ ~onconverse
    /\ onconverse' = TRUE
    /\ lastFire' = NoFire
    /\ UNCHANGED <<adapter, waiters, promises, dlg>>
    /\ UNCHANGED calVars
    /\ UNCHANGED botVars

\* recv() is called on a conversation with key k: Spool.wait pushes a waiter
\* and returns a new promise. Conversations are made by mkconv only, so there
\* is none before the handler has been started once.
Wait(k) ==
    /\ dlg # <<>>
    /\ Len(promises) < MaxWaiters
    /\ LET key == WaitKey(adapter, k)
           id == Len(promises) + 1
       IN  /\ waiters' = Push(waiters, [key |-> key, id |-> id])
           /\ promises' = Append(promises, [key |-> key, got |-> <<>>])
    /\ lastFire' = NoFire
    /\ UNCHANGED <<adapter, onconverse, dlg>>
    /\ UNCHANGED calVars
    /\ UNCHANGED botVars

FireMutInterrupts(k, m) ==
    /\ onconverse
    /\ k \in ConvKeys(adapter)
    /\ LET key == FireKey(adapter, k, m)
           i == Dispatch(waiters, key)
       IN  IF i # 0
           THEN /\ waiters' = Splice(waiters, i)
                /\ promises' = [promises EXCEPT ![waiters[i].id].got = Resolve(@, m)]
                /\ dlg' = dlg
                /\ lastFire' = [kind |-> "handled", key |-> key, conv |-> k, msg |-> m,
                                to |-> waiters[i].id, mk |-> 0,
                                ret |-> BoolStr(FireResult(TRUE))]
           ELSE IF BotHandler(adapter)
           THEN /\ Len(dlg) < MaxDialogs
                /\ dlg' = Append(dlg, [state |-> "running", ret |-> "open"])
                /\ lastFire' = [kind |-> "new", key |-> key, conv |-> k, msg |-> m,
                                to |-> 0, mk |-> 1, ret |-> "open"]
                /\ UNCHANGED <<waiters, promises>>
           ELSE /\ lastFire' = [kind |-> "neither", key |-> key, conv |-> k, msg |-> m,
                                to |-> 0, mk |-> 0,
                                ret |-> BoolStr(FireResult(FALSE))]
                /\ UNCHANGED <<waiters, promises, dlg>>
    /\ UNCHANGED <<adapter, onconverse>>
    /\ pc' = IF pc \in {"join", "get", "committing"} THEN "done" ELSE pc
    /\ UNCHANGED <<kind, event, part, succeeded, commit, buffer, inflight, acked,
                   failed, rnode, rcommit, sent, lastGet>>
    /\ UNCHANGED botVars

\* The adapter's message handler calls fire for a message m of conversation k.
\* With a waiter: cbk(message), return true. Without one and with a handler:
\* mkconv() and the handler are called and fire awaits the handler. Without
\* either: return false.
Fire(k, m) ==
    /\ onconverse
    /\ k \in ConvKeys(adapter)
    /\ LET key == FireKey(adapter, k, m)
           i == Dispatch(waiters, key)
       IN  IF i # 0
           THEN /\ waiters' = Splice(waiters, i)
                /\ promises' = [promises EXCEPT ![waiters[i].id].got = Resolve(@, m)]
                /\ dlg' = dlg
                /\ lastFire' = [kind |-> "handled", key |-> key, conv |-> k, msg |-> m,
                                to |-> waiters[i].id, mk |-> 0,
                                ret |-> BoolStr(FireResult(TRUE))]
           ELSE IF BotHandler(adapter)
           THEN /\ Len(dlg) < MaxDialogs
                /\ dlg' = Append(dlg, [state |-> "running", ret |-> "open"])
                /\ lastFire' = [kind |-> "new", key |-> key, conv |-> k, msg |-> m,
                                to |-> 0, mk |-> 1, ret |-> "open"]
                /\ UNCHANGED <<waiters, promises>>
           ELSE /\ lastFire' = [kind |-> "neither", key |-> key, conv |-> k, msg |-> m,
                                to |-> 0, mk |-> 0,
                                ret |-> BoolStr(FireResult(FALSE))]
                /\ UNCHANGED <<waiters, promises, dlg>>
    /\ UNCHANGED <<adapter, onconverse>>
    /\ UNCHANGED calVars
    /\ UNCHANGED botVars

\* The handler started by new-conversation call d returns: the fire call that
\* awaits it returns false.
HandlerReturns(d) ==
    /\ dlg[d].state = "running"
    /\ dlg' = [dlg EXCEPT ![d].state = "returned",
                          ![d].ret = BoolStr(FireResult(FALSE))]
    /\ lastFire' = NoFire
    /\ UNCHANGED <<adapter, onconverse, waiters, promises>>
    /\ UNCHANGED calVars
    /\ UNCHANGED botVars

\* The handler started by call d throws: interact has no catch, so the promise of
\* the handler rejects and the fire call that awaits it rejects.
HandlerThrows(d) ==
    /\ dlg[d].state = "running"
    /\ dlg' = [dlg EXCEPT ![d].state = "threw", ![d].ret = "rejected"]
    /\ lastFire' = NoFire
    /\ UNCHANGED <<adapter, onconverse, waiters, promises>>
    /\ UNCHANGED calVars
    /\ UNCHANGED botVars

SpoolInit ==
    /\ adapter \in Adapters
    /\ onconverse = FALSE
    /\ waiters = <<>>
    /\ promises = <<>>
    /\ dlg = <<>>
    /\ lastFire = NoFire
    /\ kind = [p \in Parts |-> "caldav"]
    /\ event = CHOOSE ev \in Events : \A other \in Events : ev.start <= other.start /\ ev.end <= other.end
    /\ pc = "idle"
    /\ part = [p \in Parts |-> "idle"]
    /\ succeeded = "unset"
    /\ commit = "none"
    /\ buffer = [p \in Parts |-> {}]
    /\ inflight = [p \in Parts |-> {}]
    /\ acked = [p \in Parts |-> {}]
    /\ failed = [p \in Parts |-> {}]
    /\ rnode = [p \in Parts |-> "none"]
    /\ rcommit = [p \in Parts |-> "none"]
    /\ sent = <<>>
    /\ lastGet = NoGet
    /\ BotIdle

SpoolNext ==
    \/ Connect
    \/ \E k \in ConvKeys(adapter) : Wait(k)
    \/ \E k \in ConvKeys(adapter) : \E m \in Msgs : Fire(k, m)
    \/ \E d \in 1..Len(dlg) : HandlerReturns(d)
    \/ \E d \in 1..Len(dlg) : HandlerThrows(d)

SpoolSpec == SpoolInit /\ [][SpoolNext]_vars

\* Every key an adapter can use.
AllKeys == UNION {ConvKeys(a) : a \in Adapters}

\* SpoolSpec for runs in which messages keep coming in for every conversation:
\* a message for a key is never held back for ever.
FairSpoolSpec ==
    SpoolSpec /\ \A k \in AllKeys : WF_vars(\E m \in Msgs : Fire(k, m))

\* The transaction of handle_schedule_meeting while the adapter goes on taking
\* messages: the Spool is connected, and the handler that runs the transaction
\* is not at a recv(), so it has no waiter in the list.
TxnInit ==
    /\ kind \in [Parts -> Kinds]
    /\ event \in Events
    /\ pc = "hyp"
    /\ part = [p \in Parts |-> "idle"]
    /\ succeeded = "unset"
    /\ commit = "none"
    /\ buffer = [p \in Parts |-> {}]
    /\ inflight = [p \in Parts |-> {}]
    /\ acked = [p \in Parts |-> {}]
    /\ failed = [p \in Parts |-> {}]
    /\ rnode = [p \in Parts |-> "none"]
    /\ rcommit = [p \in Parts |-> "none"]
    /\ sent = <<>>
    /\ lastGet = NoGet
    /\ adapter = "fb"
    /\ onconverse = TRUE
    /\ waiters = <<>>
    /\ promises = <<>>
    /\ dlg = <<>>
    /\ lastFire = NoFire
    /\ BotIdle

TxnNext ==
    \/ Next
    \/ \E k \in ConvKeys(adapter) : \E m \in Msgs : Fire(k, m)
    \/ \E d \in 1..Len(dlg) : HandlerReturns(d)
    \/ \E d \in 1..Len(dlg) : HandlerThrows(d)

TxnSpec == TxnInit /\ [][TxnNext]_vars

\* ------------------------------------------------------- users (opalbot)

\* Conversation.namespace of the three adapters.
Namespaces == {"slack", "facebook", "terminal"}

Services == {"caldav", "remote"}

\* No transaction and no calendar client is running.
CalIdle ==
    /\ kind = [p \in Parts |-> "caldav"]
    /\ event = CHOOSE ev \in Events : \A other \in Events : ev.start <= other.start /\ ev.end <= other.end
    /\ pc = "idle"
    /\ part = [p \in Parts |-> "idle"]
    /\ succeeded = "unset"
    /\ commit = "none"
    /\ buffer = [p \in Parts |-> {}]
    /\ inflight = [p \in Parts |-> {}]
    /\ acked = [p \in Parts |-> {}]
    /\ failed = [p \in Parts |-> {}]
    /\ rnode = [p \in Parts |-> "none"]
    /\ rcommit = [p \in Parts |-> "none"]
    /\ sent = <<>>
    /\ lastGet = NoGet

\* getUser: let slack_id = conv.user; the query is { slack_id }. The namespace
\* of the conversation is not read.
UserKey(user, namespace) == user

\* getUser: the record found, or a new one { slack_id, settings: {} }. `by` is
\* not a field of the record: it names the namespace of the conversation that
\* wrote the settings.
GetUser(store, user, namespace) ==
    IF store[UserKey(user, namespace)] = Absent
    THEN [store EXCEPT ![UserKey(user, namespace)] = [service |-> "none", by |-> "nobody"]]
    ELSE store

\* getCalendar(conv, force) up to its await: with force, or without a
\* configured service, it asks for the settings form; otherwise it returns the
\* calendar made from the stored settings.
GetCalendarCall(user, namespace, force) ==
    /\ users' = GetUser(users, user, namespace)
    /\ LET rec == users'[UserKey(user, namespace)]
       IN  IF force \/ rec.service = "none"
           THEN call' = [status |-> "gathering", user |-> user, ns |-> namespace]
           ELSE call' = [status |-> "done", user |-> user, ns |-> namespace,
                         service |-> rec.service, by |-> rec.by]

\* A conversation of (user, namespace) asks for its calendar.
GetCalendar(user, namespace, force) ==
    /\ call.status # "gathering"
    /\ GetCalendarCall(user, namespace, force)
    /\ UNCHANGED <<dpc, slots, log>>
    /\ UNCHANGED calVars
    /\ UNCHANGED spoolVars

\* The settings form is posted: user.settings = settings, users.update(user),
\* and the calendar is made from these settings.
SettingsPosted(service) ==
    /\ call.status = "gathering"
    /\ users' = [users EXCEPT ![UserKey(call.user, call.ns)] =
                                  [service |-> service, by |-> call.ns]]
    /\ call' = [status |-> "done", user |-> call.user, ns |-> call.ns,
                service |-> service, by |-> call.ns]
    /\ UNCHANGED <<dpc, slots, log>>
    /\ UNCHANGED calVars
    /\ UNCHANGED spoolVars

UserInit ==
    /\ CalIdle
    /\ SpoolIdle
    /\ BotIdle

UserNext ==
    \/ \E u \in UserIds : \E ns \in Namespaces : \E force \in BOOLEAN :
          GetCalendar(u, ns, force)
    \/ \E service \in Services : SettingsPosted(service)

UserSpec == UserInit /\ [][UserNext]_vars

\* ------------------------------------------------------- dialogue (opalbot)

\* The most replies the user gives within one handler call.
MaxReplies == 3

\* The conversation the dialogue runs in.
Me == "u1"
MyNamespace == "slack"

Intents == {"show_calendar", "schedule_meeting", "setup_calendar", "help",
            "who", "cancel", "none"}

SlotNames == {"contact", "datetime", "duration"}

\* The values getEntity returns for a slot: null ("absent") or an entity.
SlotValues(slot) == IF slot = "contact" THEN {"absent"} \cup UserIds ELSE {"absent", "given"}

\* What the classifier answers for the first text of a conversation, as
\* interact reads it: getEntity for greetings, bye, thanks and the three
\* slots, entityValue for intent.
Answers ==
    [greetings : BOOLEAN, bye : BOOLEAN, thanks : BOOLEAN, intent : Intents,
     contact : SlotValues("contact"), datetime : SlotValues("datetime"),
     duration : SlotValues("duration")]

\* The intents a reply is classified with: cancel, no intent, and one of the
\* intents query_loop does not look at.
ReplyIntents == {"cancel", "none", "schedule_meeting"}

\* What the classifier answers for a reply inside query_loop: the intent and
\* the entity of the slot asked for.
ReplyAnswers(slot) == [intent : ReplyIntents, value : SlotValues(slot)]

\* The texts interact tells apart before it classifies.
Texts == {"blank", "default", "words"}

\* The if-chain of interact.
HandlerFor(res) ==
    IF res.greetings THEN "greeting"
    ELSE IF res.bye THEN "bye"
    ELSE IF res.thanks THEN "thanks"
    ELSE IF res.intent = "show_calendar" THEN "show_calendar"
    ELSE IF res.intent = "schedule_meeting" THEN "schedule_meeting"
    ELSE IF res.intent = "setup_calendar" THEN "setup_calendar"
    ELSE IF res.intent = "help" THEN "help"
    ELSE IF res.intent = "who" THEN "who"
    ELSE "default"

HasCalendarMutAlways(rec) == TRUE

\* createCalendarFromSettings: null when settings.service is not set.
HasCalendar(rec) == rec.service \in Services

\* users.findOne({ slack_id }): the record, or null when there is none.
FindOne(store, id) == IF id \in DOMAIN store THEN store[id] ELSE Absent

NeedsPromptMutAlways(value) == TRUE

\* query_loop: while (value === null)
NeedsPrompt(value) == value = "absent"

StageAfterMutSkipTarget(slot) ==
    CASE slot = "contact" -> "datetime"
      [] slot = "datetime" -> "duration"
      [] slot = "duration" -> "event"

\* The statement of handle_schedule_meeting that follows the query_loop of a
\* slot: the lookup of the counterpart after contact, the duration loop after
\* datetime, the construction of the event after duration.
StageAfter(slot) ==
    CASE slot = "contact" -> "target"
      [] slot = "datetime" -> "duration"
      [] slot = "duration" -> "event"

\* handle_schedule_meeting from `stage` to its next await or return. sl are the
\* slots, lg the log so far, store the users collection.
RECURSIVE RunFrom(_, _, _, _)
RunFrom(stage, sl, lg, store) ==
    CASE stage \in SlotNames ->
           IF NeedsPrompt(sl[stage])
           THEN [dpc |-> "recv:" \o stage, log |-> lg \o <<"prompt:" \o stage>>]
           ELSE RunFrom(StageAfter(stage), sl, lg, store)
      [] stage = "target" ->
           IF FindOne(store, sl.contact) = Absent
           THEN [dpc |-> "ended", log |-> lg \o <<"send:unknown-user">>]
           ELSE IF ~HasCalendar(FindOne(store, sl.contact))
           THEN [dpc |-> "ended", log |-> lg \o <<"send:unconfigured:" \o sl.contact>>]
           ELSE RunFrom("datetime", sl, lg \o <<"targetCalendar">>, store)
      [] stage = "event" ->
           [dpc |-> "transaction", log |-> lg \o <<"send:scheduling", "event">>]

ReplyOutcomeMutValueFirst(ans) ==
    IF ans.value # "absent" THEN "value"
    ELSE IF ans.intent = "cancel" THEN "cancelled"
    ELSE "again"

ReplyOutcomeMutAskAgain(ans) ==
    IF ans.intent = "cancel" THEN "cancelled" ELSE "again"

\* query_loop after a classification that succeeded: intent cancel returns
\* null; otherwise value = getEntity(res, entity_tag) and the while test.
ReplyOutcome(ans) ==
    IF ans.intent = "cancel" THEN "cancelled"
    ELSE IF ans.value # "absent" THEN "value"
    ELSE "again"

OnClassifyFailureMutRetry == "again"

\* query_loop after a classification that failed: the catch sends the error
\* and yields null, and `if (res === null) return null`.
OnClassifyFailure == "cancelled"

AbortsOnNullMutGoOn(outcome) == FALSE

\* handle_schedule_meeting after each query_loop: if (x === null) return.
AbortsOnNull(outcome) == outcome = "cancelled"

\* The first argument the registered handler hands to interact. register sets
\*   bot.onconverse = async (text, conv) => { await this.interact(text, conv); }
\* and fire calls bot.onconverse(ctx, text, mkconv()): the handler's `text` is
\* the context and its `conv` is the text.
HandlerArg(text) == "ctx"

\* The replies the user has given in this handler call.
Replies == Cardinality({i \in 1..Len(log) : \E slot \in SlotNames : log[i] = "reply:" \o slot})

\* The log entry of a classified reply: the intent and the entity found.
ClassifiedAs(ans) == "classified:" \o ans.intent \o ":" \o ans.value

InteractMutClassifyAll(text, lg) ==
    IF text = "ctx"
    THEN dpc' = "threw" /\ log' = Append(lg, "text:" \o text)
    ELSE dpc' = "classifying" /\ log' = lg \o <<"text:" \o text, "classify">>

\* interact up to its first await or return, with the log so far. On a value
\* that is not a string text.trim() throws. A text that is empty after trim(),
\* or the bot's own default response, returns at once.
Interact(text, lg) ==
    IF text = "ctx"
    THEN dpc' = "threw" /\ log' = Append(lg, "text:" \o text)
    ELSE IF text \in {"blank", "default"}
    THEN dpc' = "ended" /\ log' = Append(lg, "text:" \o text)
    ELSE dpc' = "classifying" /\ log' = lg \o <<"text:" \o text, "classify">>

\* Spool.fire calls the registered handler for a new conversation.
HandlerCalled(text) ==
    /\ dpc = "idle"
    /\ Interact(HandlerArg(text), Append(log, "fired:" \o text))
    /\ UNCHANGED <<users, call, slots>>
    /\ UNCHANGED calVars
    /\ UNCHANGED spoolVars

\* interact is called with a text and a conversation, as its signature says.
InteractCalled(text) ==
    /\ dpc = "idle"
    /\ Interact(text, log)
    /\ UNCHANGED <<users, call, slots>>
    /\ UNCHANGED calVars
    /\ UNCHANGED spoolVars

\* The transaction begins when the handler has reached the event: the two
\* calendars are those made from the settings of the caller and the counterpart.
EnterTransaction(r, store, sl) ==
    IF r.dpc = "transaction"
    THEN /\ pc' = "hyp"
         /\ kind' = [p \in Parts |->
                        IF p = "my" THEN FindOne(store, Me).service
                        ELSE FindOne(store, sl.contact).service]
    ELSE UNCHANGED <<pc, kind>>

\* handle_schedule_meeting from its entry to its first await or return.
ScheduleMeetingEntry(sl, lg) ==
    /\ users' = GetUser(users, Me, MyNamespace)
    /\ call' = call
    /\ IF ~HasCalendar(users'[UserKey(Me, MyNamespace)])
       THEN /\ dpc' = "ended"
            /\ log' = lg \o <<"send:unconfigured:you">>
            /\ slots' = sl
            /\ UNCHANGED <<pc, kind>>
       ELSE LET r == RunFrom("contact", sl, lg \o <<"myCalendar">>, users')
            IN  /\ dpc' = r.dpc
                /\ log' = r.log
                /\ slots' = sl
                /\ EnterTransaction(r, users', sl)

\* wit.message has answered in interact: the handler chosen runs to its first
\* await or to its return.
Classified(res) ==
    /\ dpc = "classifying"
    /\ LET h == HandlerFor(res)
           lg == Append(log, "handler:" \o h)
       IN  CASE h = "schedule_meeting" ->
                  ScheduleMeetingEntry([contact |-> res.contact,
                                        datetime |-> res.datetime,
                                        duration |-> res.duration], lg)
             [] h = "show_calendar" ->
                  /\ GetCalendarCall(Me, MyNamespace, FALSE)
                  /\ dpc' = "getCalendar:show"
                  /\ log' = lg \o <<"send:lets-get">>
                  /\ UNCHANGED <<slots, pc, kind>>
             [] h = "setup_calendar" ->
                  /\ GetCalendarCall(Me, MyNamespace, TRUE)
                  /\ dpc' = "getCalendar:setup"
                  /\ log' = lg
                  /\ UNCHANGED <<slots, pc, kind>>
             [] OTHER ->
                  /\ dpc' = "ended"
                  /\ log' = lg \o <<"send:" \o h>>
                  /\ UNCHANGED <<users, call, slots, pc, kind>>
    /\ UNCHANGED <<event, part, succeeded, commit, buffer, inflight, acked,
                   failed, rnode, rcommit, sent, lastGet>>
    /\ UNCHANGED spoolVars

\* wit.message rejects in interact, which has no catch.
ClassifyFails ==
    /\ dpc = "classifying"
    /\ dpc' = "threw"
    /\ UNCHANGED <<users, call, slots, log>>
    /\ UNCHANGED calVars
    /\ UNCHANGED spoolVars

\* getCalendar has returned to handle_show_calendar or handle_setup_calendar.
CalendarReady ==
    /\ dpc \in {"getCalendar:show", "getCalendar:setup"}
    /\ call.status = "done"
    /\ IF dpc = "getCalendar:setup"
       THEN dpc' = "ended" /\ log' = Append(log, "send:all-set")
       ELSE dpc' = "events" /\ log' = log
    /\ UNCHANGED <<users, call, slots>>
    /\ UNCHANGED calVars
    /\ UNCHANGED spoolVars

\* getSomeEvents has returned: the summary is sent.
EventsListed ==
    /\ dpc = "events"
    /\ dpc' = "ended"
    /\ log' = Append(log, "send:events")
    /\ UNCHANGED <<users, call, slots>>
    /\ UNCHANGED calVars
    /\ UNCHANGED spoolVars

\* getEvents rejects in getSomeEvents.
EventsFail ==
    /\ dpc = "events"
    /\ dpc' = "threw"
    /\ UNCHANGED <<users, call, slots, log>>
    /\ UNCHANGED calVars
    /\ UNCHANGED spoolVars

\* The user's reply reaches the recv() of query_loop; wit.message is called.
Reply(slot) ==
    /\ dpc = "recv:" \o slot
    /\ Replies < MaxReplies
    /\ dpc' = "wit:" \o slot
    /\ log' = Append(log, "reply:" \o slot)
    /\ UNCHANGED <<users, call, slots>>
    /\ UNCHANGED calVars
    /\ UNCHANGED spoolVars

\* query_loop and its caller after the classification of a reply, with what
\* the classification came to: "cancelled" (null is returned), "value" (the
\* entity is returned), "again" (the loop goes round).
AfterReply(slot, outcome, value, lg) ==
    IF outcome = "again"
    THEN /\ dpc' = "recv:" \o slot
         /\ log' = lg \o <<"prompt:" \o slot>>
         /\ UNCHANGED <<slots, pc, kind>>
    ELSE IF AbortsOnNull(outcome)
    THEN /\ dpc' = "ended"
         /\ log' = lg
         /\ UNCHANGED <<slots, pc, kind>>
    ELSE LET sl == [slots EXCEPT ![slot] = value]
             r == RunFrom(StageAfter(slot), sl, lg, users)
         IN  /\ dpc' = r.dpc
             /\ log' = r.log
             /\ slots' = sl
             /\ EnterTransaction(r, users, sl)

\* wit.message has answered for a reply.
ReplyClassified(slot, ans) ==
    /\ dpc = "wit:" \o slot
    /\ LET outcome == ReplyOutcome(ans)
       IN  AfterReply(slot, outcome, ans.value,
                      IF outcome = "cancelled"
                      THEN log \o <<ClassifiedAs(ans), "send:giving-up">>
                      ELSE Append(log, ClassifiedAs(ans)))
    /\ UNCHANGED <<users, call>>
    /\ UNCHANGED <<event, part, succeeded, commit, buffer, inflight, acked,
                   failed, rnode, rcommit, sent, lastGet>>
    /\ UNCHANGED spoolVars

\* wit.message rejects for a reply: the catch of query_loop sends the error.
ReplyClassifyFails(slot) ==
    /\ dpc = "wit:" \o slot
    /\ AfterReply(slot, OnClassifyFailure, "absent",
                  log \o <<"failed", "send:error">>)
    /\ UNCHANGED <<users, call>>
    /\ UNCHANGED <<event, part, succeeded, commit, buffer, inflight, acked,
                   failed, rnode, rcommit, sent, lastGet>>
    /\ UNCHANGED spoolVars

\* The records the database can hold for a user when the bot starts.
StoredRecords ==
    {Absent, [service |-> "none", by |-> "nobody"]}
        \cup {[service |-> sv, by |-> MyNamespace] : sv \in Services}

DialogInit ==
    /\ CalIdle
    /\ SpoolIdle
    /\ users \in [UserIds -> StoredRecords]
    /\ call = NoCall
    /\ DialogIdle

DialogNext ==
    \/ \E text \in Texts : HandlerCalled(text)
    \/ \E text \in Texts : InteractCalled(text)
    \/ \E res \in Answers : Classified(res)
    \/ ClassifyFails
    \/ \E service \in Services : SettingsPosted(service)
    \/ CalendarReady
    \/ EventsListed
    \/ EventsFail
    \/ \E slot \in SlotNames : Reply(slot)
    \/ \E slot \in SlotNames : \E ans \in ReplyAnswers(slot) : ReplyClassified(slot, ans)
    \/ \E slot \in SlotNames : ReplyClassifyFails(slot)
    \/ StartMyWrite
    \/ StartTargetWrite

DialogSpec == DialogInit /\ [][DialogNext]_vars

\* ------------------------------------------------------- properties

Sent(m) == m \in SeqSet(sent)

BothTrue == \A p \in Parts : part[p] = "true"

\* The handler has returned and nothing it started is still outstanding.
Settled ==
    /\ pc = "done"
    /\ \A p \in Parts : inflight[p] = {} /\ part[p] # "pending"

\* The write of the event on p's backend was acknowledged: scheduleEventImpl
\* returned res.ok for a caldav calendar, the remote node returned true and
\* its commit went through for a remote calendar.
WriteSucceeded(p) ==
    IF kind[p] = "caldav" THEN event \in acked[p] ELSE part[p] = "true"

WriteFailed(p) ==
    IF kind[p] = "caldav" THEN event \in failed[p]
    ELSE part[p] \in {"false", "rejected"}

\* C1: "Got it." is sent only in runs where the write succeeded on both
\* backends, and in every run where a write failed (not ok, or threw) a failure
\* message is sent instead.
GotItOnlyIfBothWritesSucceeded ==
    Settled =>
        /\ Sent(MsgGotIt) => \A p \in Parts : WriteSucceeded(p)
        /\ (\E p \in Parts : WriteFailed(p)) =>
               /\ ~Sent(MsgGotIt)
               /\ Sent(MsgCouldNot) \/ Sent(MsgCommitFailed)

\* C2: commit() of the world succeeds only if every calendar write issued for
\* the world succeeded; a write that fails or throws makes commit() fail.
CommitOkOnlyIfEveryWriteOk ==
    (commit = "ok" /\ \A p \in Parts : inflight[p] = {}) =>
        \A p \in Parts : failed[p] = {}

\* C3: the aggregate read from the world is m AND t for every pair of
\* participant outcomes; commit() is attempted only for (true, true) and then
\* succeeds; every other pair is reported as a failure.
AggregateIsConjunction ==
    /\ (succeeded # "unset" /\ \A p \in Parts : Resolved(p)) =>
           succeeded = BoolStr(part["my"] = "true" /\ part["target"] = "true")
    /\ commit # "none" => BothTrue
    /\ (pc = "done" /\ BothTrue) => commit = "ok" /\ Sent(MsgGotIt)
    /\ (pc = "done" /\ ~BothTrue) => Sent(MsgCouldNot) /\ ~Sent(MsgGotIt)

\* The caller's write returned true, the counterpart's false, and the run ended
\* with the aggregate false.
MixedOutcomeReported ==
    /\ pc = "done"
    /\ part["my"] = "true"
    /\ part["target"] = "false"
    /\ succeeded = "false"

\* C4: a participant whose scheduleEvent rejects counts as false for that
\* participant only, and the join still waits for the other participant: once
\* the aggregate is there, no participant is still outstanding.
RejectionDoesNotAbortJoin ==
    (succeeded # "unset" /\ \E p \in Parts : part[p] = "rejected") =>
        \A p \in Parts : part[p] # "pending"

CommitOnlyAfterBothResolved ==
    /\ part["target"] # "idle" => part["my"] # "idle"
    /\ commit # "none" => \A p \in Parts : Resolved(p)

\* The commit runs in a transaction whose two writes both went over the network.
CommitRunningBothRemote ==
    /\ commit = "running"
    /\ \A p \in Parts : kind[p] = "remote" /\ rnode[p] = "true"

\* C9: scheduleEvent puts the event into the buffer at once, and its result is
\* true exactly when the backend acknowledged the write of the event.
ScheduleEventTrueIffWriteAcked ==
    \A p \in Parts :
        kind[p] = "caldav" =>
            /\ (part[p] # "idle" /\ commit = "none") => event \in buffer[p]
            /\ Settled => (part[p] = "true" <=> event \in acked[p])

GotOk == lastGet.status = "ok"

IsSortedByStart(s) ==
    \A i \in 1..Len(s) : \A j \in 1..Len(s) : i < j => s[i].start <= s[j].start

NoEqualEvents(s) ==
    \A i \in 1..Len(s) : \A j \in 1..Len(s) : i # j => s[i] # s[j]

BufferedInRange(p, start, end) == {ev \in buffer[p] : Overlaps(ev, start, end)}

\* C7: getEvents(start, end) returns a sequence sorted by start time, without
\* two equal events, whose elements are the remote fetch result together with
\* the buffered events that overlap the range.
GetEventsIsSortedUnion ==
    GotOk =>
        /\ IsSortedByStart(lastGet.result)
        /\ NoEqualEvents(lastGet.result)
        /\ SeqSet(lastGet.result) =
               SeqSet(lastGet.remote)
                   \cup BufferedInRange(lastGet.cal, lastGet.start, lastGet.end)

\* C8: an event scheduled on a calendar and not yet written remotely is
\* returned by getEvents for a range that contains it; with no remote events
\* and one buffered event the result is exactly that event.
ReadYourWrites ==
    GotOk =>
        /\ BufferedInRange(lastGet.cal, lastGet.start, lastGet.end)
               \subseteq SeqSet(lastGet.result)
        /\ \A ev \in Events :
               (/\ lastGet.remote = <<>>
                /\ buffer[lastGet.cal] = {ev}
                /\ Overlaps(ev, lastGet.start, lastGet.end)) => lastGet.result = <<ev>>

\* C10: an event whose remote write failed stays in the buffer, and a getEvents
\* call right after the failure returns it.
PhantomEventIsReturned ==
    \A p \in CalParts : \A ev \in failed[p] :
        /\ ev \in buffer[p]
        /\ (GotOk /\ lastGet.cal = p /\ Overlaps(ev, lastGet.start, lastGet.end)) =>
               ev \in SeqSet(lastGet.result)

\* A step in which a getEvents call returned or threw.
GetEventsStep ==
    /\ lastGet' # lastGet
    /\ lastGet'.status \in {"ok", "threw"}

CalCommitStep == pc = "api" /\ pc' = "apiCommitted"

BufferChangedOnlyByOwner ==
    [][\A p \in Parts :
          /\ ~(buffer'[p] \subseteq buffer[p]) =>
                 /\ part[p] = "idle" /\ part'[p] # "idle"
                 /\ buffer'[p] = buffer[p] \cup {event}
          /\ ~(buffer[p] \subseteq buffer'[p]) =>
                 /\ pc = "get" /\ pc' = "committing"
                 /\ buffer[p] \subseteq inflight'[p]
          /\ (part[Other(p)] = "idle" /\ part'[Other(p)] # "idle") =>
                 buffer'[p] = buffer[p]]_vars

\* Both calendars buffer their writes; the caller's scheduleEvent has run and
\* the counterpart's has not: only the caller's buffer holds the event.
OnlyCallerBuffered ==
    /\ \A p \in Parts : kind[p] = "caldav"
    /\ pc = "myStarted"
    /\ buffer["my"] = {event}
    /\ buffer["target"] = {}

\* A step in which a fire call ran its synchronous part.
FireStep == lastFire' # lastFire /\ lastFire'.kind # "none"

\* The promises wait(key) has returned that no message has been delivered to.
PendingUnder(key) ==
    {id \in 1..Len(promises) : promises[id].key = key /\ promises[id].got = <<>>}

Earliest(ids) == CHOOSE id \in ids : \A other \in ids : id <= other

\* C14: a message fired for a key goes to the earliest registered of the
\* waiters still pending under that key, and to no other; a message fired for
\* a key whose waiters have all been served starts the new-conversation
\* handler exactly once.
FifoPerKey ==
    [][FireStep =>
          LET key == lastFire'.key
              ids == PendingUnder(key)
          IN  IF ids # {}
              THEN /\ lastFire'.kind = "handled"
                   /\ lastFire'.to = Earliest(ids)
                   /\ promises' = [promises EXCEPT
                                      ![Earliest(ids)].got = <<lastFire'.msg>>]
                   /\ dlg' = dlg
              ELSE (\E id \in 1..Len(promises) : promises[id].key = key) =>
                       /\ lastFire'.kind = "new"
                       /\ lastFire'.mk = 1
                       /\ Len(dlg') = Len(dlg) + 1
                       /\ promises' = promises]_vars

\* Two waiters were registered under one key, the first message went to the
\* first and the second to the second, and a third message for the key has
\* started a new conversation.
TwoServedThenNew ==
    /\ Len(promises) >= 2
    /\ promises[1].key = promises[2].key
    /\ promises[1].got = <<"m1">>
    /\ promises[2].got = <<"m2">>
    /\ lastFire.kind = "new"
    /\ lastFire.key = promises[1].key

\* C15: every call of fire ends with exactly one of two outcomes: the message
\* was delivered to one waiter, or the new-conversation handler was called
\* once; never neither and never both.
ExactlyOneOutcome ==
    lastFire.kind # "none" =>
        LET delivered == lastFire.to # 0
            started == lastFire.mk = 1
        IN  (delivered \/ started) /\ ~(delivered /\ started)

HasWaiter(ws, key) == \E i \in 1..Len(ws) : ws[i].key = key

\* C16: fire returns true exactly when a waiter with the key was in the list;
\* mkconv is called at most once per call and only when there was none, and a
\* call that started the handler returns false only once the handler has
\* returned.
FireTrueIffWaiterFound ==
    [][/\ FireStep =>
             /\ lastFire'.ret = "true" <=> HasWaiter(waiters, lastFire'.key)
             /\ lastFire'.mk \in {0, 1}
             /\ lastFire'.mk = 1 => ~HasWaiter(waiters, lastFire'.key)
             /\ Len(dlg') = Len(dlg) + lastFire'.mk
             /\ lastFire'.mk = 1 => dlg'[Len(dlg')].ret = "open"
       /\ \A d \in 1..Len(dlg) :
             /\ dlg'[d].ret # "true"
             /\ dlg'[d].ret = "false" => dlg'[d].state = "returned"
             /\ dlg[d].state = "running" => dlg[d].ret = "open"]_vars

\* A fire call that started the handler has returned false after the handler
\* returned, and the latest fire call found a waiter and returned true.
NewReturnedFalseHandledTrue ==
    /\ \E d \in 1..Len(dlg) : dlg[d].state = "returned" /\ dlg[d].ret = "false"
    /\ lastFire.kind = "handled"
    /\ lastFire.ret = "true"

\* The list ws without its i-th entry, the others in their order.
Without(ws, i) == [n \in 1..(Len(ws) - 1) |-> IF n < i THEN ws[n] ELSE ws[n + 1]]

\* C17: the dispatch of a fire call removes exactly one waiter, the first in
\* the list whose key is the key, and leaves the others in their order; when no
\* waiter has the key it finds none and the list is as it was.
DispatchRemovesEarliestOnly ==
    [][FireStep =>
          LET key == lastFire'.key
          IN  IF HasWaiter(waiters, key)
              THEN \E i \in 1..Len(waiters) :
                       /\ waiters[i].key = key
                       /\ \A j \in 1..(i - 1) : waiters[j].key # key
                       /\ lastFire'.to = waiters[i].id
                       /\ waiters' = Without(waiters, i)
              ELSE /\ lastFire'.to = 0
                   /\ waiters' = waiters]_vars

\* Of three waiters the second has just been served: the first and the third
\* are left, in that order.
MiddleWaiterRemoved ==
    /\ lastFire.kind = "handled"
    /\ lastFire.to = 2
    /\ Len(waiters) = 2
    /\ waiters[1].id = 1
    /\ waiters[2].id = 3

InList(ws, id) == \E i \in 1..Len(ws) : ws[i].id = id

\* C18: whatever the order of the wait and fire calls, no waiter is called more
\* than once, a waiter that has been called is no longer in the list, and one
\* fire call delivers its message to at most one waiter.
ResolvedAtMostOnce ==
    [][/\ \A id \in 1..Len(promises') :
             /\ Len(promises'[id].got) <= 1
             /\ promises'[id].got # <<>> => ~InList(waiters', id)
       /\ \A i \in 1..Len(waiters') : \A j \in 1..Len(waiters') :
             i # j => waiters'[i].id # waiters'[j].id
       /\ FireStep =>
             Cardinality({id \in 1..Len(promises) :
                             promises'[id] # promises[id]}) <= 1]_vars

\* Two waiters of one key are in the list and a third, registered under the
\* same key before them, has its message.
OneServedTwoLeft ==
    /\ Len(waiters) = 2
    /\ waiters[1].key = waiters[2].key
    /\ \E id \in 1..Len(promises) :
          /\ promises[id].key = waiters[1].key
          /\ Len(promises[id].got) = 1

\* C19: a promise of wait(K) gets a message only in a fire step whose key is K,
\* and that message is the fired one; in every other step a pending waiter
\* stays pending and stays in the list.
PendingUntilOwnKeyDispatched ==
    [][\A id \in 1..Len(promises) :
          IF FireStep /\ lastFire'.key = promises[id].key
          THEN promises'[id].got \in {promises[id].got,
                                      Append(promises[id].got, lastFire'.msg)}
          ELSE /\ promises'[id] = promises[id]
               /\ InList(waiters, id) => InList(waiters', id)]_vars

\* A message fired under one key has been delivered while a waiter of another
\* key is still in the list, without a message.
OtherKeyStillPending ==
    /\ lastFire.kind = "handled"
    /\ \E i \in 1..Len(waiters) :
          /\ waiters[i].key # lastFire.key
          /\ promises[waiters[i].id].got = <<>>

\* The waiters of the key of ws[i] that are in the list ahead of ws[i].
Ahead(ws, i) == Cardinality({j \in 1..(i - 1) : ws[j].key = ws[i].key})

PosOf(ws, id) == CHOOSE i \in 1..Len(ws) : ws[i].id = id

IsPending(id) == id <= Len(promises) /\ promises[id].got = <<>>

IsResolved(id) == id <= Len(promises) /\ promises[id].got # <<>>

\* C20: a fire for key K serves the waiter of K that has none of K ahead of it
\* and moves every other waiter of K one place up; no other step changes how
\* many are ahead of a waiter. So a waiter with n of its key ahead is served by
\* the (n+1)-th fire for its key, and when messages keep coming for the key
\* every waiter is served in the end.
WaiterServedInTurn ==
    /\ [][\A i \in 1..Len(waiters) :
             LET w == waiters[i]
                 n == Ahead(waiters, i)
             IN  IF FireStep /\ lastFire'.key = w.key
                 THEN IF n = 0
                      THEN /\ ~InList(waiters', w.id)
                           /\ promises'[w.id].got = <<lastFire'.msg>>
                      ELSE /\ InList(waiters', w.id)
                           /\ Ahead(waiters', PosOf(waiters', w.id)) = n - 1
                 ELSE /\ InList(waiters', w.id)
                      /\ Ahead(waiters', PosOf(waiters', w.id)) = n]_vars
    /\ \A id \in 1..MaxWaiters : IsPending(id) ~> IsResolved(id)

\* The third of three waiters of one key had two ahead of it; two fires have
\* served those two and it is now the first in the list.
ThirdWaiterNowFirst ==
    /\ Len(promises) = 3
    /\ \A id \in 1..3 : promises[id].key = promises[1].key
    /\ IsResolved(1) /\ IsResolved(2) /\ IsPending(3)
    /\ lastFire.kind = "handled"
    /\ lastFire.to = 2
    /\ Len(waiters) = 1
    /\ waiters[1].id = 3

\* C21: for every adapter the key a message of a conversation is fired under
\* is the key the conversation's recv() waits on.
FiredKeyIsWaitKey ==
    lastFire.kind # "none" => lastFire.key = WaitKey(adapter, lastFire.conv)

\* C22: two conversations with the same user id and different namespaces are
\* different persons: the settings a conversation gets its calendar from were
\* written by a conversation of its own namespace, and a conversation
\* overwrites only settings of its own namespace.
NamespacesAreSeparate ==
    /\ call.status = "done" => call.by = call.ns
    /\ call.status = "gathering" =>
           users[UserKey(call.user, call.ns)].by \in {"nobody", call.ns}

\* ---- C23
HandlerNames == {"greeting", "bye", "thanks", "show_calendar", "schedule_meeting",
                 "setup_calendar", "help", "who", "default"}

Count(marks) == Cardinality({i \in 1..Len(log) : log[i] \in marks})

CountAfter(marks) == Cardinality({i \in 1..Len(log') : log'[i] \in marks})

\* What the step added to the log.
Added == SubSeq(log', Len(log) + 1, Len(log'))

\* C23: once the handling of a new-conversation text is over, the classifier
\* was called exactly once, exactly one handler was invoked, and the handling
\* ended by returning.
OneClassificationOneHandler ==
    dpc \in {"ended", "threw"} =>
        /\ dpc = "ended"
        /\ Count({"classify"}) = 1
        /\ Count({"handler:" \o h : h \in HandlerNames}) = 1

\* ---- C24
\* A reply to the prompt for `slot` was classified with intent `intent` and
\* entity `value` in this step.
ReplyStep(slot, intent, value) ==
    /\ dpc = "wit:" \o slot
    /\ Len(log') > Len(log)
    /\ log'[Len(log) + 1] = "classified:" \o intent \o ":" \o value

\* query_loop for `slot` has sent as many prompts as it received replies.
PromptsMatchReplies(slot) ==
    CountAfter({"prompt:" \o slot}) = CountAfter({"reply:" \o slot})

\* C24: when a reply that is not a cancellation classifies with an entity for
\* the slot, query_loop returns that entity, sends no further prompt for the
\* slot, and has sent as many prompts as it received replies.
FirstValueReturned ==
    [][\A slot \in SlotNames : \A intent \in ReplyIntents \ {"cancel"} :
          \A value \in SlotValues(slot) \ {"absent"} :
             ReplyStep(slot, intent, value) =>
                 /\ slots'[slot] = value
                 /\ dpc' \notin {"recv:" \o slot, "wit:" \o slot}
                 /\ \A i \in 1..Len(Added) : Added[i] # "prompt:" \o slot
                 /\ PromptsMatchReplies(slot)]_vars

\* The second reply for the duration carried the entity, the first did not.
ValueOnSecondReply ==
    /\ Count({"reply:duration"}) = 2
    /\ Count({"prompt:duration"}) = 2
    /\ Count({"classified:none:absent"}) >= 1
    /\ slots.duration = "given"
    /\ dpc = "transaction"

\* ---- C25
\* C25: when a reply classifies with intent cancel, with or without an entity
\* for the slot, query_loop sends the acknowledgement and returns null: no
\* slot takes a value, nothing else is sent, and the handler is over.
CancelReturnsNull ==
    [][\A slot \in SlotNames : \A value \in SlotValues(slot) :
          ReplyStep(slot, "cancel", value) =>
              /\ Added = <<"classified:cancel:" \o value, "send:giving-up">>
              /\ slots' = slots
              /\ slots'[slot] = "absent"
              /\ dpc' = "ended"]_vars

\* A cancellation that carried an entity ended the handler.
CancelledWithValue ==
    /\ dpc = "ended"
    /\ Len(log) >= 2
    /\ log[Len(log)] = "send:giving-up"
    /\ log[Len(log) - 1] = "classified:cancel:given"
    /\ slots.datetime = "absent"
    /\ Count({"reply:datetime"}) = 1

\* ---- C26
\* The classification of the first text chose handle_schedule_meeting in this
\* step.
ScheduleMeetingStep ==
    /\ dpc = "classifying"
    /\ Len(log') > Len(log)
    /\ log'[Len(log) + 1] = "handler:schedule_meeting"

Configured(store, id) == id \in DOMAIN store /\ store[id].service \in Services

\* C26: when handle_schedule_meeting is entered with the three slots supplied
\* and both parties configured, it reaches the transaction without a prompt
\* and without waiting for a reply, and no write was started yet.
FullSlotsRunDirectly ==
    [][(/\ ScheduleMeetingStep
        /\ \A slot \in SlotNames : slots'[slot] # "absent"
        /\ Configured(users', Me)
        /\ Configured(users', slots'.contact)) =>
           /\ dpc' = "transaction"
           /\ pc' = "hyp"
           /\ \A i \in 1..Len(log') : \A slot \in SlotNames :
                 log'[i] \notin {"prompt:" \o slot, "reply:" \o slot}
           /\ \A p \in Parts : part'[p] = "idle"]_vars

\* Both writes were started after a handler call that never prompted.
BothWritesWithoutPrompt ==
    /\ dpc = "transaction"
    /\ Count({"prompt:" \o slot : slot \in SlotNames}) = 0
    /\ \A p \in Parts : part[p] # "idle"

\* ---- C27
\* The classification of a reply to the prompt for `slot` failed in this step.
FailureStep(slot) ==
    /\ dpc = "wit:" \o slot
    /\ Len(log') > Len(log)
    /\ log'[Len(log) + 1] = "failed"

\* C27 as stated: after a failed classification the error is reported, the
\* prompt is sent again and the next reply is awaited.
FailureAsksAgain ==
    [][\A slot \in SlotNames :
          FailureStep(slot) =>
              /\ Added = <<"failed", "send:error", "prompt:" \o slot>>
              /\ dpc' = "recv:" \o slot]_vars

\* C27: after a failed classification the error is reported and query_loop
\* returns null: nothing is prompted again, no slot takes a value, and the
\* handler is over without a transaction.
FailureReturnsNull ==
    [][\A slot \in SlotNames :
          FailureStep(slot) =>
              /\ Added = <<"failed", "send:error">>
              /\ dpc' = "ended"
              /\ slots' = slots
              /\ pc' = "idle"]_vars

\* The classification of the reply for the start time failed, and the handler
\* is over.
EndedOnFailure ==
    /\ dpc = "ended"
    /\ Len(log) >= 3
    /\ log[Len(log)] = "send:error"
    /\ log[Len(log) - 1] = "failed"
    /\ log[Len(log) - 2] = "reply:datetime"

\* ---- C28
\* C28: once a query_loop of handle_schedule_meeting was cancelled, the
\* acknowledgement is the last thing that happened: the handler is over, no
\* event was made, the transaction was not entered and no write was started.
CancelAbortsHandler ==
    Count({"send:giving-up"}) > 0 =>
        /\ log[Len(log)] = "send:giving-up"
        /\ Count({"send:giving-up"}) = 1
        /\ dpc = "ended"
        /\ Count({"event"}) = 0
        /\ pc = "idle"
        /\ \A p \in Parts : part[p] = "idle"

\* The third query_loop was cancelled after the first two were answered.
CancelledInThirdLoop ==
    /\ Count({"send:giving-up"}) = 1
    /\ Count({"reply:contact"}) = 1
    /\ Count({"reply:datetime"}) = 1
    /\ Count({"reply:duration"}) = 1
    /\ slots.duration = "absent"
    /\ dpc = "ended"

\* ---- C29
\* handle_schedule_meeting has looked at the counterpart: the contact slot is
\* filled and the handler is past the first query_loop.
PastContact ==
    /\ Count({"handler:schedule_meeting"}) = 1
    /\ Count({"myCalendar"}) = 1
    /\ slots.contact # "absent"

\* C29: handle_schedule_meeting with an unconfigured caller ends with the
\* message to the caller; with a configured caller and an unconfigured
\* counterpart it ends, once the counterpart is known, with the message that
\* names the counterpart; in both cases no event is made and no write started.
UnconfiguredPartyAborts ==
    /\ (Count({"handler:schedule_meeting"}) = 1 /\ ~Configured(users, Me)) =>
           /\ log[Len(log)] = "send:unconfigured:you"
           /\ Count({"myCalendar"}) = 0
    /\ (PastContact /\ slots.contact \in DOMAIN users /\ users[slots.contact] # Absent
          /\ ~Configured(users, slots.contact)) =>
           log[Len(log)] = "send:unconfigured:" \o slots.contact
    /\ Count({"send:unconfigured:" \o who : who \in UserIds \cup {"you"}}) > 0 =>
           /\ dpc = "ended"
           /\ Count({"event", "targetCalendar"}) = 0
           /\ pc = "idle"
           /\ \A p \in Parts : part[p] = "idle"

\* The counterpart named in a reply had no calendar set up.
CounterpartUnconfigured ==
    /\ Count({"reply:contact"}) = 1
    /\ slots.contact = "u2"
    /\ log[Len(log)] = "send:unconfigured:u2"
    /\ dpc = "ended"

\* ---- C30
\* Every entry of the first kind comes before every entry of the second.
Before(first, second) ==
    \A i, j \in 1..Len(log) : (log[i] \in first /\ log[j] \in second) => i < j

About(slot) == {"prompt:" \o slot, "reply:" \o slot}

\* C30 as stated: the counterpart's calendar is resolved after all three
\* slots have been filled.
TargetCalendarAfterAllSlots ==
    Count({"targetCalendar"}) > 0 => \A slot \in SlotNames : slots[slot] # "absent"

\* C30: the caller's calendar is resolved first; then the counterpart is
\* asked for; then the counterpart's calendar is resolved, with the contact
\* slot filled; then the start time and then the duration are asked for; the
\* event is made last, with all slots filled and both calendars resolved.
ScheduleMeetingOrder ==
    /\ Before({"myCalendar"}, About("contact") \cup {"targetCalendar"})
    /\ Before(About("contact"), {"targetCalendar"})
    /\ Before({"targetCalendar"}, About("datetime") \cup About("duration"))
    /\ Before(About("datetime"), About("duration"))
    /\ Before(About("duration") \cup {"targetCalendar"}, {"event"})
    /\ Count({"targetCalendar"}) > 0 => (slots.contact # "absent" /\ Count({"myCalendar"}) = 1)
    /\ Count(About("datetime") \cup About("duration")) > 0 => Count({"targetCalendar"}) = 1
    /\ Count({"event"}) > 0 =>
           /\ \A slot \in SlotNames : slots[slot] # "absent"
           /\ Count({"targetCalendar"}) = 1
           /\ dpc = "transaction"

\* All three slots were asked for and the transaction was entered.
AllSlotsAskedThenTransaction ==
    /\ \A slot \in SlotNames : Count({"prompt:" \o slot}) = 1
    /\ Count({"targetCalendar"}) = 1
    /\ dpc = "transaction"

\* ---- C31
\* The transaction has failed with both scheduleEvent promises resolved: the
\* handler took the else branch and returned.
FailedRun == pc = "done" /\ succeeded = "false" /\ \A p \in Parts : Resolved(p)

TrueParts == {p \in Parts : part[p] = "true"}

\* C31: a failed transaction in which exactly one scheduleEvent gave true ends
\* with the warning about both calendars, and one in which none gave true ends
\* with another message.
FailureMessageTellsPartialFromTotal ==
    FailedRun =>
        /\ Cardinality(TrueParts) = 1 => sent[Len(sent)] = MsgCouldNot
        /\ Cardinality(TrueParts) = 0 => sent[Len(sent)] # MsgCouldNot

\* ---- C36
\* C36: when ctx.commit has resolved, no scheduleEventImpl the commit started
\* is still running.
CommitJoinsWrites ==
    commit = "ok" => \A p \in Parts : inflight[p] = {}

\* ---- C37
\* C37: the promise of remote.Calendar.scheduleEvent, once the commit of its
\* world has an outcome, is resolved: with false when the commit rejected,
\* with the boolean of the remote node when the commit went through.
RemoteFoldsCommitFailure ==
    \A p \in Parts :
        (kind[p] = "remote" /\ rcommit[p] # "none") =>
            /\ part[p] # "rejected"
            /\ rcommit[p] = "rejected" => part[p] = "false"
            /\ rcommit[p] = "ok" => (rnode[p] \in {"true", "false"} /\ part[p] = rnode[p])

\* The commit of the counterpart's remote world rejected although the node had
\* accepted the event, and the transaction reported the failure.
RemoteCommitRejectedAfterTrue ==
    /\ kind["target"] = "remote"
    /\ rnode["target"] = "true"
    /\ rcommit["target"] = "rejected"
    /\ part["target"] = "false"
    /\ pc = "done"

\* ---- C39
OutcomeMsgs == {MsgGotIt, MsgCommitFailed, MsgCouldNot}

Outcomes == Cardinality({i \in 1..Len(sent) : sent[i] \in OutcomeMsgs})

\* C39: a run of the transaction sends at most one of the three outcome
\* messages, it has sent exactly one when the handler returns, that one is
\* the last message, and "Got it." is sent only after a commit that succeeded.
ExactlyOneOutcomeMessage ==
    /\ Outcomes <= 1
    /\ pc = "done" => (Outcomes = 1 /\ sent[Len(sent)] \in OutcomeMsgs)
    /\ pc # "done" => Outcomes = 0
    /\ Sent(MsgGotIt) => (succeeded = "true" /\ commit = "ok")
    /\ (Sent(MsgCouldNot) \/ Sent(MsgIssue)) => succeeded = "false"

\* A scheduleEvent promise rejected: the issue was sent, then the one outcome.
IssueThenCouldNot ==
    /\ pc = "done"
    /\ sent = <<MsgIssue, MsgCouldNot>>

\* ---- C32
\* The log entries of conv.send.
SendMarks ==
    {"send:" \o h : h \in HandlerNames}
        \cup {"send:lets-get", "send:all-set", "send:events", "send:giving-up",
              "send:error", "send:unknown-user", "send:scheduling"}
        \cup {"send:unconfigured:" \o who : who \in UserIds \cup {"you"}}

\* C32: a run of interact that called the classifier and ended by an
\* exception has sent a message to the conversation.
NoSilentFailure ==
    (dpc = "threw" /\ Count({"classify"}) = 1) => Count(SendMarks) > 0

\* ---- C38
\* C38: when the text that came in, or the text interact received, is blank
\* or the default response, the run makes no classification, calls no
\* handler, sends nothing, and is over.
BlankAndDefaultAreIgnored ==
    Count({"text:blank", "text:default", "fired:blank", "fired:default"}) > 0 =>
        /\ Count({"classify"}) = 0
        /\ Count({"handler:" \o h : h \in HandlerNames}) = 0
        /\ Count(SendMarks) = 0
        /\ dpc \in {"ended", "threw"}
        /\ pc = "idle"

\* interact received the bot's default response and returned.
DefaultResponseIgnored ==
    /\ log = <<"text:default">>
    /\ dpc = "ended"

\* ---- C33
\* A scheduleEvent promise or a backend write of the transaction is outstanding.
WriteInFlight ==
    \/ \E p \in Parts : part[p] = "pending"
    \/ \E p \in Parts : inflight[p] # {}
    \/ pc \in {"join", "get", "committing"}

\* C33: a message that comes in while the transaction is in flight reaches no
\* recv() of the handler that runs it: fire starts a new conversation for it,
\* and the transaction, its writes and its messages are as they were, with
\* its next step still to be taken.
CancelDoesNotInterrupt ==
    [][(FireStep /\ WriteInFlight) =>
          /\ lastFire'.kind = "new"
          /\ lastFire'.to = 0
          /\ UNCHANGED calVars
          /\ pc # "done" => ENABLED Next]_vars

\* A message came in while the commit was running with a write in flight.
MessageDuringCommit ==
    /\ lastFire.kind = "new"
    /\ pc = "committing"
    /\ \E p \in Parts : inflight[p] # {}

\* ---- C34
OfOtherKeys(ws, key) == SelectSeq(ws, LAMBDA w : w.key # key)

\* C34: with a conversation already started, a message fired under a key is
\* delivered to the earliest waiter of that key, or starts the handler when
\* the key has none, whatever the other conversations are doing; the waiters
\* and promises of every other key are as they were.
KeysProgressIndependently ==
    [][(FireStep /\ Len(dlg) > 0) =>
          LET key == lastFire'.key
          IN  /\ key = WaitKey(adapter, lastFire'.conv)
              /\ lastFire'.kind = IF HasWaiter(waiters, key) THEN "handled" ELSE "new"
              /\ OfOtherKeys(waiters', key) = OfOtherKeys(waiters, key)
              /\ \A id \in 1..Len(promises) :
                    promises[id].key # key => promises'[id] = promises[id]]_vars

\* A message of k2 started a conversation while a waiter of k1 was pending
\* and a handler was running.
SecondKeyStartedWhileFirstWaits ==
    /\ lastFire.kind = "new"
    /\ lastFire.key = "k2"
    /\ \E i \in 1..Len(waiters) :
          waiters[i].key = "k1" /\ promises[waiters[i].id].got = <<>>
    /\ Len(dlg) = 2
    /\ dlg[1].state = "running"

\* ---- C40
Running == {d \in 1..Len(dlg) : dlg[d].state = "running"}

\* C40: on the terminal, whose conversations all have the key null, at most
\* one handler call is running at a time.
OneDialoguePerKey ==
    adapter = "term" => Cardinality(Running) <= 1

\* ---- C35
\* A conversant is a user id in a namespace.
Conversants == UserIds \X Namespaces

\* The settings stored for a conversant: the service, or "unset".
SettingsOf(store, who) ==
    LET rec == store[UserKey(who[1], who[2])]
    IN  IF rec.service \in Services THEN rec.service ELSE "unset"

\* C35: a step of a getCalendar run of one conversant leaves the settings
\* stored for every other conversant as they were.
DifferentUsersDoNotConflict ==
    [][call'.status # "none" =>
          \A who \in Conversants :
             who # <<call'.user, call'.ns>> =>
                 SettingsOf(users', who) = SettingsOf(users, who)]_vars

====
